---- MODULE Spec2Model ----
(***************************************************************************)
(* State-machine model of the WhatsApp lead dashboard front end.           *)
(*                                                                         *)
(* The lead conversation page exists in two versions in the source (the    *)
(* first at part_000:43-347, the second at part_000:399-705); the Sales    *)
(* Coach panel is a separate component.  A behaviour exercises one         *)
(* component instance, chosen in Init (the components share no state).     *)
(* Asynchronous handlers are split at their awaits: one action runs the    *)
(* handler up to the request, one action runs the continuation when the    *)
(* request resolves.                                                       *)
(***************************************************************************)
EXTENDS Integers, Sequences, FiniteSets, TLC

VARIABLES
    component,     \* which component instance the behaviour exercises
    mounted,       \* "init" (constructed), "mounted", "unmounted"
    leadId,        \* route parameter /inbox/[id] (prop leadId for the panel)
    timer,         \* active polling intervals: the lead ids their callbacks fetch for
    lead,          \* useState<LeadData | null>
    loading,       \* useState(false)
    error,         \* useState<string | null>
    input,         \* useState("") : reply input box
    sending,       \* useState(false)
    selectedReply, \* SalesCoachPanel: useState<string>("")
    msgReqs,       \* messages requests in flight: request kind -> count
    posts,         \* reply POSTs in flight: lead id -> count
    adviceReqs,    \* SalesCoachPanel: coach advice requests in flight
    latestVisit,   \* useState<Visit | null>(null) : the visit of the banner
    showVisitModal,\* useState(false) : the booking modal is open
    visitReqs,     \* visits requests in flight: lead id -> count
    lastVisits,    \* history: the visits request resolved last and its response
    modal,         \* VisitBookingModal on display: its date, loading and error
    bookReqs,      \* booking POSTs in flight: <<lead id, its modal is on display>> -> count
    backendVisits, \* the visits collection the backend holds
    visitHist,     \* history: the collection before the last booking, the visits
                   \* requests issued before it, a failed visits fetch since
    leads,         \* InboxPage: useState<Lead[]>([])
    scope,         \* InboxPage: useState<Scope>("all")
    leadsReqs,     \* InboxPage: leads requests in flight: scope -> count
    backendLeads,  \* the leads the backend holds
    metrics,       \* InsightsTab: the metrics prop
    insights,      \* InsightsTab: the three percentages it displays
    lastResp,      \* history: the messages request resolved last and its response
    lastOp         \* history: the handler step taken last and what it saw

vars == <<component, mounted, leadId, timer, lead, loading, error, input,
          sending, selectedReply, msgReqs, posts, adviceReqs, latestVisit,
          showVisitModal, visitReqs, lastVisits, modal, bookReqs, backendVisits,
          visitHist, leads, scope, leadsReqs, backendLeads, metrics, insights,
          lastResp, lastOp>>

\* the state of the visit banner, of the booking modal and of the backend's visits
visitVars ==
    <<latestVisit, showVisitModal, visitReqs, lastVisits, modal, bookReqs,
      backendVisits, visitHist>>

\* the state of the inbox list and of the insights tab
dashVars == <<leads, scope, leadsReqs, backendLeads, metrics, insights>>

(***************************************************************************)
(* Bounds of the model.                                                    *)
(***************************************************************************)
MaxInFlight == 2   \* requests in flight when a handler starts another one
MaxLen == 2        \* characters in the reply input box
MaxVisits == 2     \* visits in the collection the visits endpoint answers with
MaxCount == 40     \* value of a counter of the analytics metrics

Precision == 53    \* bits of the mantissa of a number (IEEE-754 binary64)

(***************************************************************************)
(* JavaScript values.                                                      *)
(***************************************************************************)
Undef == "undefined"
Null == "null"
NoLead == ""            \* params.id missing: leadId is falsy
LeadIds == {"L1", "L2"}
Chars == {" ", "a"}

V1 == "LeadPage.v1"
V2 == "LeadPage.v2"
Coach == "SalesCoachPanel"
Inbox == "InboxPage"
Insights == "InsightsTab"
Components == {V1, V2, Coach}
IsLeadPage == component \in {V1, V2}

\* String.prototype.trim on the input, a sequence of characters
RECURSIVE TrimLeft(_)
TrimLeft(s) == IF s # <<>> /\ Head(s) = " " THEN TrimLeft(Tail(s)) ELSE s

RECURSIVE TrimRight(_)
TrimRight(s) ==
    IF s # <<>> /\ s[Len(s)] = " " THEN TrimRight(SubSeq(s, 1, Len(s) - 1)) ELSE s

Trim(s) == TrimRight(TrimLeft(s))

Inputs == UNION {[1..n -> Chars] : n \in 0..MaxLen}

(***************************************************************************)
(* JSON bodies of the messages endpoint.  A value of a `messages` field is *)
(* [t, items]: absent (undefined), null, an array, or some other value (a  *)
(* string, a number, an object).                                           *)
(***************************************************************************)
MUndef == [t |-> "undefined", items |-> <<>>]
MNull == [t |-> "null", items |-> <<>>]
MOther == [t |-> "other", items |-> <<>>]
MArr(a) == [t |-> "array", items |-> a]

Json(k, l, n, ln, m, d, a) ==
    [kind |-> k, leadId |-> l, name |-> n, leadName |-> ln, messages |-> m,
     nested |-> d, items |-> a]

EmptyBody == Json("empty", Undef, Undef, Undef, MUndef, MUndef, <<>>)
InvalidBody == Json("invalid", Undef, Undef, Undef, MUndef, MUndef, <<>>)
JsonNull == Json("null", Undef, Undef, Undef, MUndef, MUndef, <<>>)
JsonArray(a) == Json("array", Undef, Undef, Undef, MUndef, MUndef, a)
JsonObject(l, n, ln, m, d) == Json("object", l, n, ln, m, d, <<>>)

ErrorObject == JsonObject(Undef, Undef, Undef, MUndef, MUndef)    \* {"error": "..."}

\* The bodies the backend answers with in the model
Bodies ==
    { EmptyBody, InvalidBody, JsonNull,
      JsonArray(<<>>), JsonArray(<<"m1", "m2">>),
      JsonObject("L1", "Asha", Undef, MArr(<<"m1", "m2">>), MUndef),
      JsonObject(Undef, Undef, "Asha", MArr(<<"m2", "m1">>), MUndef),
      JsonObject(Undef, Undef, Undef, MArr(<<>>), MUndef),
      JsonObject(Undef, "Asha", Undef, MUndef, MUndef),
      JsonObject("L2", Undef, Undef, MNull, MUndef),
      JsonObject(Undef, Undef, Undef, MOther, MUndef),
      JsonObject(Undef, Undef, Undef, MUndef, MArr(<<"m1">>)),
      JsonObject(Undef, Undef, Undef, MUndef, MOther),
      ErrorObject }

\* the bodies of a non-success answer: an HTML error page, {"error": ...}, nothing
ErrorBodies == {InvalidBody, ErrorObject, EmptyBody}

\* the bodies the backend answers with while the reply submission is exercised
FewBodies ==
    { InvalidBody, JsonArray(<<>>),
      JsonObject("L1", "Asha", Undef, MArr(<<"m1", "m2">>), MUndef),
      JsonObject(Undef, Undef, "Asha", MArr(<<"m2", "m1">>), MUndef) }

\* a ?? b
Coalesce(a, b) == IF a \in {Undef, Null} THEN b ELSE a
MCoalesce(a, b) == IF a.t \in {"undefined", "null"} THEN b ELSE a

\* text ? JSON.parse(text) : null  -- whether the parse throws, and its value
ParseThrows(body) == body.kind = "invalid"
Parsed(body) == IF body.kind = "empty" THEN JsonNull ELSE body

\* !data
Falsy(data) == data.kind = "null"

\* data.messages === undefined && data.messages === null && data.messages?.length === 0
FallbackCond(data) ==
    /\ data.messages.t = "undefined"
    /\ data.messages.t = "null"
    /\ data.messages.t = "array" /\ Len(data.messages.items) = 0

LeadData(l, n, m) == JsonObject(l, n, Undef, m, MUndef)

\* the defensive normalization of the second version
Normalize(data, id) ==
    IF Falsy(data) THEN JsonNull
    ELSE IF data.kind = "object" /\ data.messages.t = "array" THEN
        LeadData(Coalesce(data.leadId, id),
                 Coalesce(Coalesce(data.name, data.leadName), data.name),
                 data.messages)
    ELSE IF data.kind = "array" THEN LeadData(id, Undef, MArr(data.items))
    ELSE IF FallbackCond(data) THEN LeadData(id, Coalesce(data.name, Undef), MArr(<<>>))
    ELSE LeadData(Coalesce(data.leadId, id), Coalesce(data.name, Undef),
                  MCoalesce(data.messages, MCoalesce(data.nested, MArr(<<>>))))

\* {lead?.messages?.map((msg, index) => ...)} : the call throws a TypeError when
\* messages is neither nullish nor an array
RenderThrows(l) == l.kind = "object" /\ l.messages.t = "other"

\* the bubbles the view shows
Shown(l) == IF l.kind = "object" /\ l.messages.t = "array" THEN l.messages.items ELSE <<>>

(***************************************************************************)
(* Responses.  fetch() either rejects (network failure) or resolves with a *)
(* status and a body.                                                      *)
(***************************************************************************)
Statuses == {200, 500}
Ok(status) == status \in 200..299                     \* res.ok

NetErr == [net |-> FALSE, status |-> 0, body |-> EmptyBody]
Http(s, b) == [net |-> TRUE, status |-> s, body |-> b]
Responses ==
    {NetErr} \cup {Http(200, b) : b \in Bodies} \cup {Http(500, b) : b \in ErrorBodies}
FewResponses ==
    {NetErr} \cup {Http(200, b) : b \in FewBodies} \cup {Http(500, InvalidBody)}

\* the classes of answers to a messages request
FetchClass(resp) ==
    IF ~resp.net THEN "fetch.neterr"
    ELSE IF ~Ok(resp.status)
         THEN IF resp.body.kind = "invalid" THEN "fetch.http_error.invalid"
              ELSE "fetch.http_error"
         ELSE IF resp.body.kind = "invalid" THEN "fetch.invalid"
         ELSE IF resp.body.kind = "empty" THEN "fetch.empty"
         ELSE "fetch.ok"

\* the classes of answers to a reply POST
PostClass(resp) ==
    IF ~resp.net THEN "post.neterr"
    ELSE IF Ok(resp.status) THEN "post.ok" ELSE "post.http_error"

\* the reply endpoint: only the status is read
ReplyResponses == {NetErr} \cup {Http(s, EmptyBody) : s \in Statuses}

\* error strings
ErrNetwork == "Failed to fetch"                        \* err.message of a rejected fetch
ErrInvalidJson == "Invalid JSON from messages endpoint"
ErrSyntax == "Unexpected end of JSON input"            \* err.message of res.json()
ErrApi(status) == IF status = 500 THEN "API error: 500" ELSE "API error"
ErrSend(status) == IF status = 500 THEN "Send failed: 500" ELSE "Send failed"
ErrCoachSend == "Failed to send reply"
ErrCoachLoad == "Failed to load coach advice"
ErrNoAdvice == "No AI advice available for this lead."

(***************************************************************************)
(* Visits.  The lead reference of a visit is missing, a bare identifier, or *)
(* an embedded lead object {_id, id?}; the date is a day of January 2024.   *)
(***************************************************************************)
RefMissing == [t |-> "missing", str |-> Undef, oid |-> Undef, id |-> Undef]
RefStr(l) == [t |-> "string", str |-> l, oid |-> Undef, id |-> Undef]
RefObj(o, i) == [t |-> "object", str |-> Undef, oid |-> o, id |-> i]
Refs == {RefMissing, RefStr("L1"), RefObj("L1", Undef), RefObj("L2", Undef)}

Dates == {1, 3}
VisitOf(ref, d) == [leadId |-> ref, date |-> d]
Visits == {VisitOf(r, d) : r \in Refs, d \in Dates}
NoVisit == [leadId |-> RefMissing, date |-> 0]          \* latestVisit === null

VisitLists == UNION {[1..n -> Visits] : n \in 0..MaxVisits}

\* new Date(v.date).getTime(), in seconds from 2024-01-01T00:00Z
GetTime(d) == (d - 1) * 86400

\* faulty variant: only the bare identifier is compared, the populated object is not handled
MatchesLeadStringOnly(v, id) == v.leadId.t = "string" /\ v.leadId.str = id

\* the callback of allVisits.filter(...)
MatchesLead(v, id) ==
    IF v.leadId.t = "missing" THEN FALSE                    \* if (!v.leadId) return false
    ELSE IF v.leadId.t = "string" THEN v.leadId.str = id
    ELSE IF component = V1 THEN v.leadId.oid = id
    ELSE v.leadId.oid = id \/ v.leadId.id = id

VisitsForLead(allVisits, id) == SelectSeq(allVisits, LAMBDA v : MatchesLead(v, id))

\* (a, b) => new Date(b.date).getTime() - new Date(a.date).getTime()
NewestFirst(a, b) == GetTime(b.date) - GetTime(a.date)

\* Array.prototype.sort(compare): a stable sort
RECURSIVE InsertVisit(_, _)
InsertVisit(x, sorted) ==
    IF sorted = <<>> THEN <<x>>
    ELSE IF NewestFirst(Head(sorted), x) <= 0
         THEN <<Head(sorted)>> \o InsertVisit(x, Tail(sorted))
         ELSE <<x>> \o sorted

RECURSIVE SortVisits(_)
SortVisits(list) ==
    IF list = <<>> THEN <<>>
    ELSE InsertVisit(list[Len(list)], SortVisits(SubSeq(list, 1, Len(list) - 1)))

\* bodies of the visits endpoint: not JSON, null, or an object whose `visits`
\* is absent, null, an array or some other value
VisitsBody(k, v) == [kind |-> k, visits |-> v]
VisitsNetErr == [net |-> FALSE, status |-> 0, body |-> VisitsBody("invalid", MUndef)]
VisitsHttp(st, b) == [net |-> TRUE, status |-> st, body |-> b]
VisitsOk(list) == VisitsHttp(200, VisitsBody("object", MArr(list)))

VisitsOddResponses ==
    { VisitsNetErr,
      VisitsHttp(500, VisitsBody("object", MUndef)),
      VisitsHttp(500, VisitsBody("invalid", MUndef)),
      VisitsHttp(200, VisitsBody("invalid", MUndef)),
      VisitsHttp(200, VisitsBody("null", MUndef)),
      VisitsHttp(200, VisitsBody("object", MUndef)),
      VisitsHttp(200, VisitsBody("object", MNull)),
      VisitsHttp(200, VisitsBody("object", MOther)) }

VisitsResponses == VisitsOddResponses \cup {VisitsOk(list) : list \in VisitLists}

\* the classes of answers to a visits request
VisitsClass(resp) ==
    IF ~resp.net THEN "visits.neterr"
    ELSE IF ~Ok(resp.status) THEN "visits.http_error"
    ELSE IF resp.body.kind = "invalid" THEN "visits.invalid"
    ELSE IF resp.body.kind = "null" THEN "visits.null"
    ELSE IF resp.body.visits.t = "other" THEN "visits.bad_shape"
    ELSE "visits.ok"

(***************************************************************************)
(* Numbers.  A positive IEEE-754 double is its mantissa, Precision bits     *)
(* with the most significant first, and the exponent of its first bit;     *)
(* zero has no bits.                                                       *)
(***************************************************************************)
Zero == [bits |-> <<>>, exp |-> 0]

RECURSIVE Pow2(_)
Pow2(k) == IF k = 0 THEN 1 ELSE 2 * Pow2(k - 1)

\* the largest j with d * 2^j <= n, for n >= d
RECURSIVE ExponentAbove(_, _)
ExponentAbove(n, d) == IF 2 * d <= n THEN 1 + ExponentAbove(n, 2 * d) ELSE 0

\* the smallest k with n * 2^k >= d
RECURSIVE ExponentBelow(_, _)
ExponentBelow(n, d) == IF n >= d THEN 0 ELSE 1 + ExponentBelow(2 * n, d)

\* long division: the first `count` bits of r / D, for r < 2 * D, and the
\* remainder left after them; the bits are produced half by half
RECURSIVE DivBits(_, _, _)
DivBits(r, D, count) ==
    IF count = 0 THEN [bits |-> <<>>, rem |-> r]
    ELSE IF count = 1
    THEN LET b == IF r >= D THEN 1 ELSE 0
         IN  [bits |-> <<b>>, rem |-> 2 * (r - b * D)]
    ELSE LET half == count \div 2
             first == DivBits(r, D, half)
             second == DivBits(first.rem, D, count - half)
         IN  [bits |-> first.bits \o second.bits, rem |-> second.rem]

\* bits + 1 (one bit longer when every bit is 1)
Increment(bits) ==
    LET zeros == {i \in 1..Len(bits) : bits[i] = 0}
    IN  IF zeros = {} THEN <<1>> \o [i \in 1..Len(bits) |-> 0]
        ELSE LET last == CHOOSE i \in zeros : \A j \in zeros : j <= i
             IN  [i \in 1..Len(bits) |->
                    IF i < last THEN bits[i] ELSE IF i = last THEN 1 ELSE 0]

\* round to nearest, ties to even: the double nearest to the value whose bits,
\* the first at exponent e, are `bits` followed by a non-zero rest iff `sticky`
RoundToDouble(bits, sticky, e) ==
    IF Len(bits) <= Precision
    THEN [bits |-> bits \o [i \in 1..(Precision - Len(bits)) |-> 0], exp |-> e]
    ELSE LET kept == SubSeq(bits, 1, Precision)
             guard == bits[Precision + 1]
             rest == sticky \/ \E i \in (Precision + 2)..Len(bits) : bits[i] = 1
             up == guard = 1 /\ (rest \/ kept[Precision] = 1)
             inc == Increment(kept)
         IN  IF ~up THEN [bits |-> kept, exp |-> e]
             ELSE IF Len(inc) > Precision
                  THEN [bits |-> SubSeq(inc, 1, Precision), exp |-> e + 1]
                  ELSE [bits |-> inc, exp |-> e]

\* n / d on numbers holding the integers n >= 0 and d > 0
FloatDiv(n, d) ==
    IF n = 0 THEN Zero
    ELSE LET j == IF n >= d THEN ExponentAbove(n, d) ELSE 0
             k == ExponentBelow(n, d)
             q == DivBits(n * Pow2(k), d * Pow2(j), Precision + 1)
         IN  RoundToDouble(q.bits, q.rem # 0, j - k)

Reverse(seq) == [i \in 1..Len(seq) |-> seq[Len(seq) + 1 - i]]

\* the bits of a carry, least significant first
RECURSIVE CarryBits(_)
CarryBits(carry) ==
    IF carry = 0 THEN <<>> ELSE <<carry % 2>> \o CarryBits(carry \div 2)

\* the bits of (rev * c + carry) that fall within rev, least significant
\* first, and the carry out of them; the bits are produced half by half
RECURSIVE MulRev(_, _, _)
MulRev(rev, c, carry) ==
    IF rev = <<>> THEN [bits |-> <<>>, carry |-> carry]
    ELSE IF Len(rev) = 1
    THEN LET t == rev[1] * c + carry
         IN  [bits |-> <<t % 2>>, carry |-> t \div 2]
    ELSE LET half == Len(rev) \div 2
             low == MulRev(SubSeq(rev, 1, half), c, carry)
             high == MulRev(SubSeq(rev, half + 1, Len(rev)), c, low.carry)
         IN  [bits |-> low.bits \o high.bits, carry |-> high.carry]

\* x * c for a double x and a small integer c > 0
FloatMul(x, c) ==
    IF x.bits = <<>> THEN Zero
    ELSE LET m == MulRev(Reverse(x.bits), c, 0)
             prod == Reverse(m.bits \o CarryBits(m.carry))
         IN  RoundToDouble(prod, FALSE, x.exp + Len(prod) - Len(x.bits))

RECURSIVE BitsValue(_)
BitsValue(bits) ==
    IF bits = <<>> THEN 0
    ELSE 2 * BitsValue(SubSeq(bits, 1, Len(bits) - 1)) + bits[Len(bits)]

\* faulty variant: Math.floor in place of Math.round
MathFloor(x) ==
    IF x.bits = <<>> \/ x.exp < 0 THEN 0
    ELSE BitsValue(SubSeq(x.bits, 1, x.exp + 1))

\* Math.round(x) for x >= 0: the integer part, plus one when the fraction is
\* one half or more
MathRound(x) ==
    IF x.bits = <<>> \/ x.exp < -1 THEN 0
    ELSE IF x.exp = -1 THEN 1
    ELSE BitsValue(SubSeq(x.bits, 1, x.exp + 1)) + x.bits[x.exp + 2]

\* `${k}` : the decimal digits of an integer k >= 0
Digit(k) == <<"0", "1", "2", "3", "4", "5", "6", "7", "8", "9">>[k + 1]

RECURSIVE NumberToString(_)
NumberToString(k) ==
    IF k < 10 THEN <<Digit(k)>> ELSE NumberToString(k \div 10) \o <<Digit(k % 10)>>

\* den > 0 ? `${Math.round((num / den) * 100)}%` : '0%'
Percent(num, den) ==
    IF den > 0
    THEN NumberToString(MathRound(FloatMul(FloatDiv(num, den), 100))) \o <<"%">>
    ELSE <<"0", "%">>

(***************************************************************************)
(* The metrics of the insights tab and the leads of the inbox.             *)
(***************************************************************************)
Counts == 0..MaxCount

MetricsOf(t, h, f, w, a) ==
    [totalLeads |-> t, hotLeads |-> h, fakeLeads |-> f, whatsappIn |-> w,
     whatsappOutAI |-> a]

\* the metrics the tab is rendered with: each ratio over every pair of counts
MetricsSet ==
    {MetricsOf(d, n, 0, 0, 0) : n \in Counts, d \in Counts}
        \cup {MetricsOf(d, 0, n, 0, 0) : n \in Counts, d \in Counts}
        \cup {MetricsOf(0, 0, 0, d, n) : n \in Counts, d \in Counts}

NoMetrics == MetricsOf(0, 0, 0, 0, 0)
NoInsights == [hotShare |-> <<>>, fakeRate |-> <<>>, aiReplyCoverage |-> <<>>]

Scopes == {"all", "mine"}
MyLeads == {"L1"}            \* the leads assigned to the operator
NoLeadsReqs == [sc \in Scopes |-> 0]

(***************************************************************************)
(* Requests in flight.                                                     *)
(***************************************************************************)
Conts == {"none", "send"}     \* "send": awaited by handleSend (await fetchMessages())
ReqKeys == LeadIds \X Conts

RECURSIVE SumOver(_, _)
SumOver(f, S) ==
    IF S = {} THEN 0
    ELSE LET x == CHOOSE y \in S : TRUE IN f[x] + SumOver(f, S \ {x})

NumMsgReqs == SumOver(msgReqs, ReqKeys)
NumPosts == SumOver(posts, LeadIds \cup {NoLead})
NumVisitReqs == SumOver(visitReqs, LeadIds \cup {NoLead})
NumLeadsReqs == leadsReqs["all"] + leadsReqs["mine"]
InFlight ==
    NumMsgReqs + NumPosts + adviceReqs + NumVisitReqs + NumLeadsReqs
        + SumOver(bookReqs, (LeadIds \cup {NoLead}) \X BOOLEAN)
Room == InFlight < MaxInFlight

NoReqs == [k \in ReqKeys |-> 0]
PostKeys == LeadIds \cup {NoLead}
NoPosts == [l \in PostKeys |-> 0]
NoFetch == [lead |-> "none", resp |-> NetErr]

NoVisitsFetch == [lead |-> "none", resp |-> VisitsNetErr]

InitOf(comps) ==
    /\ component \in comps
    /\ mounted = "init"
    /\ leadId \in IF component \in {Inbox, Insights} THEN {NoLead}
                  ELSE LeadIds \cup {NoLead}
    /\ timer = {}
    /\ lead = JsonNull
    /\ loading = FALSE
    /\ error = Null
    /\ input = <<>>
    /\ sending = FALSE
    /\ selectedReply = <<>>
    /\ msgReqs = NoReqs
    /\ posts = NoPosts
    /\ adviceReqs = 0
    /\ latestVisit = NoVisit
    /\ showVisitModal = FALSE
    /\ visitReqs = NoPosts
    /\ lastVisits = NoVisitsFetch
    /\ modal = [date |-> "", loading |-> FALSE, error |-> Null]
    /\ bookReqs = [k \in PostKeys \X BOOLEAN |-> 0]
    \* the backend holds an earlier visit of lead L1, its lead populated
    /\ backendVisits = <<VisitOf(RefObj("L1", Undef), 1)>>
    /\ visitHist = [before |-> backendVisits, stale |-> NoPosts, failed |-> FALSE,
                    booked |-> "none"]
    /\ leads = {}
    /\ scope = "all"
    /\ leadsReqs = NoLeadsReqs
    /\ backendLeads \in IF component = Inbox THEN SUBSET LeadIds ELSE {{}}
    /\ metrics \in IF component = Insights THEN MetricsSet ELSE {NoMetrics}
    /\ insights = NoInsights
    /\ lastResp = NoFetch
    /\ lastOp = "init"

(***************************************************************************)
(* fetchMessages, up to its await fetch(url).                              *)
(***************************************************************************)
\* faulty variant: the guard is inverted, fetchMessages returns for every real lead id
FetchGuardInverted(id) == id = NoLead

\* if (!leadId) return
FetchGuard(id) == id # NoLead

FetchMessagesStart(id, cont) ==
    IF FetchGuard(id)
    THEN /\ loading' = TRUE
         /\ error' = Null
         /\ msgReqs' = [msgReqs EXCEPT ![<<id, cont>>] = @ + 1]
    ELSE UNCHANGED <<loading, error, msgReqs>>

\* faulty variant: the new value is merged into the stored one, setLead(prev => ({...prev, ...}))
StoredLeadMerged(prev, data, id) ==
    LET new == IF component = V1 THEN data ELSE Normalize(data, id) IN
    IF prev.kind = "object" /\ new.kind = "object"
    THEN [new EXCEPT !.name = Coalesce(new.name, prev.name)]
    ELSE new

\* faulty variant: a guard drops the payload of a request issued for a lead that is no
\* longer the active one
StoredLeadIfCurrent(prev, data, id) ==
    IF id # leadId THEN prev
    ELSE IF component = V1 THEN data ELSE Normalize(data, id)

\* setLead(...) of the fetch continuation: what is stored, given what was stored
StoredLead(prev, data, id) ==
    IF component = V1 THEN data ELSE Normalize(data, id)

\* faulty variant: the inner catch swallows the parse error instead of rethrowing
FetchErrorParseSwallowed(resp) ==
    IF ~resp.net THEN ErrNetwork
    ELSE IF component = V1 /\ ~Ok(resp.status) THEN ErrApi(resp.status)
    ELSE Null

\* does the continuation reach setLead, and which error does it set otherwise
FetchError(resp) ==
    IF ~resp.net THEN ErrNetwork
    ELSE IF component = V1
         THEN IF ~Ok(resp.status) THEN ErrApi(resp.status)
              ELSE IF resp.body.kind \in {"empty", "invalid"} THEN ErrSyntax
              ELSE Null
         ELSE IF ParseThrows(resp.body) THEN ErrInvalidJson ELSE Null

\* fetchMessages from the response to the end of finally
MessagesResolve(id, cont, resp) ==
    /\ IsLeadPage
    /\ mounted # "init"
    /\ msgReqs[<<id, cont>>] > 0
    /\ msgReqs' = [msgReqs EXCEPT ![<<id, cont>>] = @ - 1]
    /\ IF FetchError(resp) = Null
       THEN /\ lead' = StoredLead(lead, Parsed(resp.body), id)
            /\ UNCHANGED error
       ELSE /\ error' = FetchError(resp)
            /\ UNCHANGED lead
    /\ lastOp' = IF FetchClass(resp) = "fetch.ok" /\ lastResp = [lead |-> id, resp |-> resp]
                 THEN "fetch.ok.again" ELSE FetchClass(resp)
    /\ lastResp' = [lead |-> id, resp |-> resp]
    /\ loading' = FALSE
    /\ sending' = IF cont = "send" THEN FALSE ELSE sending
    /\ UNCHANGED <<component, mounted, leadId, timer, input, selectedReply, posts,
                   adviceReqs>>
    /\ UNCHANGED visitVars
    /\ UNCHANGED dashVars

(***************************************************************************)
(* Effects of the lead page: initial load and polling.                     *)
(***************************************************************************)
\* faulty variant: the effect returns no cleanup, the interval is never cleared
EffectCleanupMissing(timers, id) == timers

\* return () => clearInterval(id) : the cleanup of the effect that ran for `id`
EffectCleanup(timers, id) == timers \ {id}

\* faulty variant: the effect fetches once and creates no interval
RunEffectNoInterval(id, timers) ==
    IF component = V2 /\ id = NoLead
    THEN /\ timer' = timers
         /\ UNCHANGED <<loading, error, msgReqs>>
    ELSE /\ FetchMessagesStart(id, "none")
         /\ timer' = timers

\* the body of the polling effect for lead id `id`, `timers` being active
RunEffect(id, timers) ==
    IF component = V2 /\ id = NoLead
    THEN /\ timer' = timers
         /\ UNCHANGED <<loading, error, msgReqs>>
    ELSE /\ FetchMessagesStart(id, "none")
         /\ timer' = timers \cup {id}

\* if (!currentLeadId) return  (second version; loadVisitBanner has no guard)
VisitsGuard(id) == component = V1 \/ id # NoLead

\* loadVisitBanner / fetchLatestVisit, up to its await fetch(url)
FetchVisitsStart(id) ==
    IF VisitsGuard(id)
    THEN visitReqs' = [visitReqs EXCEPT ![id] = @ + 1]
    ELSE UNCHANGED visitReqs

\* the banner part of the effects: if (!leadId) return; then the visits fetch
VisitEffect(id) ==
    IF id # NoLead THEN FetchVisitsStart(id) ELSE UNCHANGED visitReqs

Mount ==
    /\ IsLeadPage
    /\ mounted = "init"
    /\ Room
    /\ mounted' = "mounted"
    /\ RunEffect(leadId, timer)
    /\ VisitEffect(leadId)
    /\ lastOp' = "mount"
    /\ UNCHANGED <<component, leadId, lead, input, sending, selectedReply, posts,
                   adviceReqs, lastResp, latestVisit, showVisitModal, lastVisits>>
    /\ UNCHANGED dashVars
    /\ UNCHANGED <<modal, bookReqs, backendVisits, visitHist>>

\* the route parameter changes while the page stays mounted: the cleanup of
\* the previous effect, then the effects for the new lead id
SwitchLead(id) ==
    /\ IsLeadPage
    /\ mounted = "mounted"
    /\ id # leadId
    /\ Room
    /\ leadId' = id
    /\ RunEffect(id, EffectCleanup(timer, leadId))
    /\ VisitEffect(id)
    /\ lastOp' = "switch"
    /\ UNCHANGED <<component, mounted, lead, input, sending, selectedReply, posts,
                   adviceReqs, lastResp, latestVisit, showVisitModal, lastVisits>>
    /\ UNCHANGED dashVars
    /\ UNCHANGED <<modal, bookReqs, backendVisits, visitHist>>

Unmount ==
    /\ IsLeadPage
    /\ mounted = "mounted"
    /\ mounted' = "unmounted"
    /\ timer' = EffectCleanup(timer, leadId)
    /\ lastOp' = "unmount"
    /\ UNCHANGED <<component, leadId, lead, loading, error, input, sending,
                   selectedReply, msgReqs, posts, adviceReqs, lastResp>>
    /\ UNCHANGED visitVars
    /\ UNCHANGED dashVars

\* an interval created by setInterval(fetchMessages, 5000) fires: it calls the
\* fetchMessages of the render that created it
PollTick(id) ==
    /\ IsLeadPage
    /\ id \in timer
    /\ Room
    /\ FetchMessagesStart(id, "none")
    /\ lastOp' = "tick"
    /\ UNCHANGED <<component, mounted, leadId, timer, lead, input, sending,
                   selectedReply, posts, adviceReqs, lastResp>>
    /\ UNCHANGED visitVars
    /\ UNCHANGED dashVars

\* the "Refresh chat" button
RefreshChat ==
    /\ IsLeadPage
    /\ mounted = "mounted"
    /\ Room
    /\ FetchMessagesStart(leadId, "none")
    /\ lastOp' = "refresh"
    /\ UNCHANGED <<component, mounted, leadId, timer, lead, input, sending,
                   selectedReply, posts, adviceReqs, lastResp>>
    /\ UNCHANGED visitVars
    /\ UNCHANGED dashVars

(***************************************************************************)
(* Visit banner of the lead page.                                          *)
(***************************************************************************)
\* faulty variant: the test of res.ok is missing
VisitsReachAnyStatus(resp) ==
    /\ resp.net
    /\ resp.body.kind # "invalid"
    /\ ~(component = V1 /\ resp.body.kind = "null")
    /\ resp.body.visits.t # "other"

\* the continuation gets to the filter: the fetch resolved, res.ok, res.json()
\* resolved, and neither data.visits nor allVisits.filter throws
VisitsReach(resp) ==
    /\ resp.net
    /\ Ok(resp.status)
    /\ resp.body.kind # "invalid"
    /\ ~(component = V1 /\ resp.body.kind = "null")     \* data.visits of null
    /\ resp.body.visits.t # "other"                     \* allVisits.filter is not a function

\* data.visits || [] ; data?.visits ?? []
AllVisits(body) ==
    IF body.kind = "object" /\ body.visits.t = "array" THEN body.visits.items ELSE <<>>

\* faulty variant: the branch for an empty result is missing, the banner is left alone
NoVisitBannerKept(prev) == prev

\* if (visitsForLead.length === 0) { setLatestVisit(null); return; }
NoVisitBanner(prev) == NoVisit

\* faulty variant: the comparator is inverted, (a, b) => time(a) - time(b)
LatestOfOldestFirst(visitsForLead) ==
    LET RECURSIVE Pick(_, _)
        Pick(best, rest) ==
            IF rest = <<>> THEN best
            ELSE IF GetTime(Head(rest).date) < GetTime(best.date)
                 THEN Pick(Head(rest), Tail(rest))
                 ELSE Pick(best, Tail(rest))
    IN Pick(Head(visitsForLead), Tail(visitsForLead))

\* visitsForLead.sort(...)[0]
LatestOf(visitsForLead) == SortVisits(visitsForLead)[1]

\* the value of latestVisit after the continuation, `prev` being its value before
BannerAfter(prev, resp, id) ==
    IF ~VisitsReach(resp) THEN prev
    ELSE LET visitsForLead == VisitsForLead(AllVisits(resp.body), id) IN
         IF Len(visitsForLead) = 0 THEN NoVisitBanner(prev)
         ELSE LatestOf(visitsForLead)

\* loadVisitBanner / fetchLatestVisit from the response on
VisitsResolve(id, resp) ==
    /\ IsLeadPage
    /\ visitReqs[id] > 0
    /\ visitReqs' = [visitReqs EXCEPT ![id] = @ - 1]
    /\ latestVisit' = BannerAfter(latestVisit, resp, id)
    /\ lastVisits' = [lead |-> id, resp |-> resp]
    /\ visitHist' =
           [visitHist EXCEPT
               \* a request issued before the last booking is the one answered when
               \* the answer is the collection of before it, or when no other is left
               !.stale[id] =
                   IF /\ @ > 0
                      /\ \/ /\ visitHist.before # backendVisits
                            /\ resp = VisitsOk(visitHist.before)
                         \/ visitReqs[id] = @
                   THEN @ - 1 ELSE @,
               !.failed = @ \/ (visitHist.booked # "none" /\ ~VisitsReach(resp))]
    /\ lastOp' = VisitsClass(resp)
    /\ UNCHANGED <<component, mounted, leadId, timer, lead, loading, error, input,
                   sending, selectedReply, msgReqs, posts, adviceReqs, showVisitModal,
                   lastResp>>
    /\ UNCHANGED dashVars
    /\ UNCHANGED <<modal, bookReqs, backendVisits>>

\* {showVisitModal && <VisitBookingModal .../>} : the modal leaves the display,
\* the requests it issued stay in flight
ModalGone(reqs) ==
    [k \in PostKeys \X BOOLEAN |->
        IF k[2] THEN 0 ELSE reqs[<<k[1], TRUE>>] + reqs[<<k[1], FALSE>>]]

\* the "Book Visit" button: onClick={() => setShowVisitModal(true)}
OpenVisitModal ==
    /\ IsLeadPage
    /\ mounted = "mounted"
    /\ ~showVisitModal
    /\ showVisitModal' = TRUE
    /\ modal' = [date |-> "", loading |-> FALSE, error |-> Null]    \* a new instance
    /\ lastOp' = "modal.open"
    /\ UNCHANGED <<component, mounted, leadId, timer, lead, loading, error, input,
                   sending, selectedReply, msgReqs, posts, adviceReqs, latestVisit,
                   visitReqs, lastVisits, lastResp>>
    /\ UNCHANGED dashVars
    /\ UNCHANGED <<bookReqs, backendVisits, visitHist>>

\* onClose={() => setShowVisitModal(false)}
CloseVisitModal ==
    /\ IsLeadPage
    /\ mounted = "mounted"
    /\ showVisitModal
    /\ showVisitModal' = FALSE
    /\ bookReqs' = ModalGone(bookReqs)
    /\ lastOp' = "modal.close"
    /\ UNCHANGED <<component, mounted, leadId, timer, lead, loading, error, input,
                   sending, selectedReply, msgReqs, posts, adviceReqs, latestVisit,
                   visitReqs, lastVisits, lastResp>>
    /\ UNCHANGED dashVars
    /\ UNCHANGED <<modal, backendVisits, visitHist>>

\* onSuccess of the booking modal: close it and refresh the banner
BookingSuccess ==
    /\ IsLeadPage
    /\ mounted = "mounted"
    /\ showVisitModal
    /\ Room
    /\ showVisitModal' = FALSE
    /\ FetchVisitsStart(leadId)
    /\ lastOp' = "modal.success"
    /\ UNCHANGED <<component, mounted, leadId, timer, lead, loading, error, input,
                   sending, selectedReply, msgReqs, posts, adviceReqs, latestVisit,
                   lastVisits, lastResp>>
    /\ UNCHANGED dashVars
    /\ UNCHANGED <<modal, bookReqs, backendVisits, visitHist>>

(***************************************************************************)
(* The booking modal.                                                      *)
(***************************************************************************)
\* onChange of the datetime-local input: setDate(e.target.value)
SetDate(d) ==
    /\ IsLeadPage
    /\ mounted = "mounted"
    /\ showVisitModal
    /\ d # modal.date
    /\ modal' = [modal EXCEPT !.date = d]
    /\ lastOp' = "booking.date"
    /\ UNCHANGED <<component, mounted, leadId, timer, lead, loading, error, input,
                   sending, selectedReply, msgReqs, posts, adviceReqs, lastResp>>
    /\ UNCHANGED <<latestVisit, showVisitModal, visitReqs, lastVisits>>
    /\ UNCHANGED dashVars
    /\ UNCHANGED <<bookReqs, backendVisits, visitHist>>

\* the "Save visit" button (disabled={loading}): handleSubmit up to its
\* await fetch(url, {method: "POST"}); new Date(date).toISOString() throws
\* inside the try for a text that is not a date
SubmitBooking ==
    /\ IsLeadPage
    /\ mounted = "mounted"
    /\ showVisitModal
    /\ ~modal.loading
    /\ modal.date \notin {"", "tomorrow"} => Room
    /\ IF modal.date = ""
       THEN /\ modal' = [modal EXCEPT !.error = "Please pick a date and time slot."]
            /\ lastOp' = "booking.no_date"
            /\ UNCHANGED bookReqs
       ELSE IF modal.date = "tomorrow"
       THEN /\ modal' = [modal EXCEPT !.error = "Invalid time value"]
            /\ lastOp' = "booking.bad_date"
            /\ UNCHANGED bookReqs
       ELSE /\ modal' = [modal EXCEPT !.error = Null, !.loading = TRUE]
            /\ bookReqs' = [bookReqs EXCEPT ![<<leadId, TRUE>>] = @ + 1]
            /\ lastOp' = "booking.started"
    /\ UNCHANGED <<component, mounted, leadId, timer, lead, loading, error, input,
                   sending, selectedReply, msgReqs, posts, adviceReqs, lastResp>>
    /\ UNCHANGED <<latestVisit, showVisitModal, visitReqs, lastVisits>>
    /\ UNCHANGED dashVars
    /\ UNCHANGED <<backendVisits, visitHist>>

\* answers to a booking: the fetch rejects; a non-success status with any body
\* (also {ok: true}); a success status with a body that is not JSON, {ok: false},
\* {ok: true}
BookingOutcomes ==
    {"booking.rejected", "booking.http_error", "booking.http_error_ok_true",
     "booking.invalid_json", "booking.ok_false", "booking.ok_true"}

\* faulty variant: only the status is tested, the ok flag of the body is not read
BookingAcceptedByStatus(outcome) ==
    outcome \in {"booking.invalid_json", "booking.ok_false", "booking.ok_true"}

\* neither the fetch rejects nor if (!res.ok || !data.ok) throws
BookingAccepted(outcome) == outcome = "booking.ok_true"

\* handleSubmit from the response of the POST to the end of finally; `live`:
\* the modal that issued the request is still on display.  An accepted booking
\* calls onSuccess: setShowVisitModal(false), then the visits fetch for the
\* lead the modal was rendered with.
BookingResolve(id, live, outcome) ==
    /\ IsLeadPage
    /\ bookReqs[<<id, live>>] > 0
    /\ BookingAccepted(outcome) => Len(backendVisits) < MaxVisits
    /\ IF BookingAccepted(outcome)
       THEN /\ backendVisits' = Append(backendVisits, VisitOf(RefStr(id), 3))
            /\ showVisitModal' = FALSE
            /\ bookReqs' = ModalGone([bookReqs EXCEPT ![<<id, live>>] = @ - 1])
            /\ FetchVisitsStart(id)
            /\ visitHist' = [before |-> backendVisits, stale |-> visitReqs,
                             failed |-> FALSE, booked |-> id]
            /\ modal' = IF live THEN [modal EXCEPT !.loading = FALSE] ELSE modal
       ELSE /\ bookReqs' = [bookReqs EXCEPT ![<<id, live>>] = @ - 1]
            /\ modal' = IF live
                        THEN [modal EXCEPT
                                 \* err.message: data.error || `Booking failed (${res.status})`
                                 !.error = IF outcome = "booking.rejected" THEN ErrNetwork
                                           ELSE IF outcome \in {"booking.http_error",
                                                                "booking.http_error_ok_true"}
                                                THEN "Booking failed (500)"
                                                ELSE "Booking failed (200)",
                                 !.loading = FALSE]
                        ELSE modal
            /\ UNCHANGED <<backendVisits, showVisitModal, visitReqs, visitHist>>
    /\ lastOp' = outcome
    /\ UNCHANGED <<component, mounted, leadId, timer, lead, loading, error, input,
                   sending, selectedReply, msgReqs, posts, adviceReqs, lastResp,
                   latestVisit, lastVisits>>
    /\ UNCHANGED dashVars

(***************************************************************************)
(* Reply submission of the lead page.                                      *)
(***************************************************************************)
TypeInput(s) ==
    /\ IsLeadPage
    /\ mounted = "mounted"
    /\ s # input
    /\ input' = s
    /\ lastOp' = "type"
    /\ UNCHANGED <<component, mounted, leadId, timer, lead, loading, error, sending,
                   selectedReply, msgReqs, posts, adviceReqs, lastResp>>
    /\ UNCHANGED visitVars
    /\ UNCHANGED dashVars

\* faulty variant: the guard tests the raw input, without trim()
SendGuardNoTrim(text, id) == text # <<>> /\ id # NoLead

\* const text = input.trim(); if (!text || !leadId) return;
SendGuard(text, id) == Trim(text) # <<>> /\ id # NoLead

\* handleSend up to its await fetch(url, {method: "POST"})
HandleSend ==
    /\ SendGuard(input, leadId) => Room
    /\ IF SendGuard(input, leadId)
       THEN /\ sending' = TRUE
            /\ posts' = [posts EXCEPT ![leadId] = @ + 1]
            /\ lastOp' = "send.started"
       ELSE /\ lastOp' = "send.ignored"
            /\ UNCHANGED <<sending, posts>>
    /\ UNCHANGED <<component, mounted, leadId, timer, lead, loading, error, input,
                   selectedReply, msgReqs, adviceReqs, lastResp>>
    /\ UNCHANGED visitVars
    /\ UNCHANGED dashVars

\* <button onClick={handleSend} disabled={sending || !input.trim()}>
SendDisabled == sending \/ Trim(input) = <<>>

ClickSend ==
    /\ IsLeadPage
    /\ mounted = "mounted"
    /\ ~SendDisabled
    /\ HandleSend

\* onKeyDown: if (e.key === "Enter") { e.preventDefault(); handleSend(); }
PressEnter ==
    /\ IsLeadPage
    /\ mounted = "mounted"
    /\ HandleSend

\* setError of handleSend for a reply that was not accepted (Null: none is set)
SendError(resp) ==
    IF component = V1 THEN Null
    ELSE IF ~resp.net THEN ErrNetwork ELSE ErrSend(resp.status)

\* faulty variant: the status is not tested (the return after setError is missing)
ReplyAcceptedAnyStatus(resp) == TRUE

\* the fetch did not reject and the branch if (!res.ok) is not taken
ReplyAccepted(resp) == resp.net /\ Ok(resp.status)

\* faulty variant: setSending(false) follows the try block instead of being in
\* a finally: the return and the catch of a failed submission skip it
PostResolveNoFinally(id, resp) ==
    /\ IsLeadPage
    /\ posts[id] > 0
    /\ posts' = [posts EXCEPT ![id] = @ - 1]
    /\ IF ReplyAccepted(resp)
       THEN /\ input' = <<>>
            /\ FetchMessagesStart(id, "send")
       ELSE /\ error' = IF SendError(resp) = Null THEN error ELSE SendError(resp)
            /\ UNCHANGED <<input, loading, msgReqs>>
    /\ lastOp' = PostClass(resp)
    /\ UNCHANGED <<component, mounted, leadId, timer, lead, sending, selectedReply,
                   adviceReqs, lastResp>>
    /\ UNCHANGED visitVars
    /\ UNCHANGED dashVars

\* faulty variant: the sent reply is appended to the displayed conversation
\* when the POST is accepted, before the re-fetch answers
PostResolveOptimistic(id, resp) ==
    /\ IsLeadPage
    /\ posts[id] > 0
    /\ posts' = [posts EXCEPT ![id] = @ - 1]
    /\ IF ReplyAccepted(resp)
       THEN /\ input' = <<>>
            /\ lead' = IF lead.kind = "object" /\ lead.messages.t = "array"
                       THEN [lead EXCEPT !.messages.items = @ \o <<"sent">>]
                       ELSE lead
            /\ FetchMessagesStart(id, "send")
            /\ UNCHANGED sending
       ELSE /\ error' = IF SendError(resp) = Null THEN error ELSE SendError(resp)
            /\ sending' = FALSE
            /\ UNCHANGED <<input, lead, loading, msgReqs>>
    /\ lastOp' = PostClass(resp)
    /\ UNCHANGED <<component, mounted, leadId, timer, selectedReply, adviceReqs,
                   lastResp>>
    /\ UNCHANGED visitVars
    /\ UNCHANGED dashVars

\* faulty variant: the catch of handleSend submits the reply again
PostResolveRetry(id, resp) ==
    /\ IsLeadPage
    /\ posts[id] > 0
    /\ IF ReplyAccepted(resp)
       THEN /\ posts' = [posts EXCEPT ![id] = @ - 1]
            /\ input' = <<>>
            /\ FetchMessagesStart(id, "send")
            /\ UNCHANGED sending
       ELSE /\ error' = IF SendError(resp) = Null THEN error ELSE SendError(resp)
            /\ UNCHANGED <<posts, sending, input, loading, msgReqs>>
    /\ lastOp' = PostClass(resp)
    /\ UNCHANGED <<component, mounted, leadId, timer, lead, selectedReply, adviceReqs,
                   lastResp>>
    /\ UNCHANGED visitVars
    /\ UNCHANGED dashVars

\* handleSend from the response of the POST on
PostResolve(id, resp) ==
    /\ IsLeadPage
    /\ posts[id] > 0
    /\ posts' = [posts EXCEPT ![id] = @ - 1]
    /\ IF ReplyAccepted(resp)
       THEN /\ input' = <<>>
            /\ FetchMessagesStart(id, "send")
            /\ UNCHANGED sending
       ELSE /\ error' = IF SendError(resp) = Null THEN error ELSE SendError(resp)
            /\ sending' = FALSE
            /\ UNCHANGED <<input, loading, msgReqs>>
    /\ lastOp' = PostClass(resp)
    /\ UNCHANGED <<component, mounted, leadId, timer, lead, selectedReply, adviceReqs,
                   lastResp>>
    /\ UNCHANGED visitVars
    /\ UNCHANGED dashVars

(***************************************************************************)
(* Sales Coach panel.                                                      *)
(***************************************************************************)
\* fetchLeadDetails of the panel, up to its await fetch(url)
CoachDetailsStart(id) == msgReqs' = [msgReqs EXCEPT ![<<id, "none">>] = @ + 1]

\* the two effects of the panel, each behind if (!leadId) return: the lead
\* details with their 7-second interval, and the advice load()
CoachMount ==
    /\ component = Coach
    /\ mounted = "init"
    /\ Room
    /\ mounted' = "mounted"
    /\ IF leadId = NoLead
       THEN UNCHANGED <<loading, error, adviceReqs, msgReqs, timer>>
       ELSE /\ CoachDetailsStart(leadId)
            /\ timer' = timer \cup {leadId}
            /\ loading' = TRUE
            /\ error' = Null
            /\ adviceReqs' = adviceReqs + 1
    /\ lastOp' = "coach.mount"
    /\ UNCHANGED <<component, leadId, lead, input, sending, selectedReply, posts,
                   lastResp>>
    /\ UNCHANGED visitVars
    /\ UNCHANGED dashVars

\* setInterval(fetchLeadDetails, 7000) fires
CoachPollTick(id) ==
    /\ component = Coach
    /\ id \in timer
    /\ Room
    /\ CoachDetailsStart(id)
    /\ lastOp' = "coach.tick"
    /\ UNCHANGED <<component, mounted, leadId, timer, lead, loading, error, input,
                   sending, selectedReply, posts, adviceReqs, lastResp>>
    /\ UNCHANGED visitVars
    /\ UNCHANGED dashVars

\* fetchLeadDetails from the response on: if (res.ok) setLead(await res.json());
\* a rejection is only logged
CoachDetailsResolve(id, resp) ==
    /\ component = Coach
    /\ msgReqs[<<id, "none">>] > 0
    /\ msgReqs' = [msgReqs EXCEPT ![<<id, "none">>] = @ - 1]
    /\ lead' = IF resp.net /\ Ok(resp.status) /\ resp.body.kind \notin {"empty", "invalid"}
               THEN resp.body ELSE lead
    /\ lastOp' = "coach.details"
    /\ UNCHANGED <<component, mounted, leadId, timer, loading, error, input, sending,
                   selectedReply, posts, adviceReqs, lastResp>>
    /\ UNCHANGED visitVars
    /\ UNCHANGED dashVars

AdviceResults == {"rejected", "advice", "no_advice"}

\* load() from the result of fetchCoachAdvice on
CoachAdviceResolve(result, suggested) ==
    /\ component = Coach
    /\ adviceReqs > 0
    /\ adviceReqs' = adviceReqs - 1
    /\ IF result = "advice"
       THEN selectedReply' = suggested /\ UNCHANGED error
       ELSE /\ error' = IF result = "rejected" THEN ErrCoachLoad ELSE ErrNoAdvice
            /\ UNCHANGED selectedReply
    /\ loading' = FALSE
    /\ lastOp' = "coach.advice"
    /\ UNCHANGED <<component, mounted, leadId, timer, lead, input, sending, msgReqs,
                   posts, lastResp>>
    /\ UNCHANGED visitVars
    /\ UNCHANGED dashVars

\* {!loading && !error && ( ... reply editor, Send button ... )}
CoachMainShown == mounted = "mounted" /\ ~loading /\ error = Null

\* the textarea's onChange, applyTemplate
CoachEdit(s) ==
    /\ component = Coach
    /\ CoachMainShown
    /\ s # selectedReply
    /\ selectedReply' = s
    /\ lastOp' = "coach.edit"
    /\ UNCHANGED <<component, mounted, leadId, timer, lead, loading, error, input,
                   sending, msgReqs, posts, adviceReqs, lastResp>>
    /\ UNCHANGED visitVars
    /\ UNCHANGED dashVars

\* if (!selectedReply.trim()) return;
CoachSendGuard(text) == Trim(text) # <<>>

\* disabled={sending || !selectedReply.trim()}
CoachSendDisabled == sending \/ Trim(selectedReply) = <<>>

\* the Send button: handleSend up to its await sendCoachReply(...)
CoachClickSend ==
    /\ component = Coach
    /\ CoachMainShown
    /\ ~CoachSendDisabled
    /\ CoachSendGuard(selectedReply) => Room
    /\ IF CoachSendGuard(selectedReply)
       THEN /\ sending' = TRUE
            /\ error' = Null
            /\ posts' = [posts EXCEPT ![leadId] = @ + 1]
            /\ lastOp' = "coach.send.started"
       ELSE /\ lastOp' = "coach.send.ignored"
            /\ UNCHANGED <<sending, error, posts>>
    /\ UNCHANGED <<component, mounted, leadId, timer, lead, loading, input,
                   selectedReply, msgReqs, adviceReqs, lastResp>>
    /\ UNCHANGED visitVars
    /\ UNCHANGED dashVars

\* sendCoachReply: rejected fetch, !res.ok, res.json() rejects, {ok: false}, {ok: true}
CoachReplyResults == {"rejected", "http_error", "invalid_json", "ok_false", "ok_true"}

CoachSendError(result) ==
    CASE result = "ok_true" -> Null
      [] result = "rejected" -> ErrNetwork
      [] result = "http_error" -> ErrCoachSend
      [] result = "invalid_json" -> ErrSyntax
      [] result = "ok_false" -> "Failed to send"

\* handleSend from the result of sendCoachReply on
CoachPostResolve(id, result) ==
    /\ component = Coach
    /\ posts[id] > 0
    /\ posts' = [posts EXCEPT ![id] = @ - 1]
    /\ error' = IF CoachSendError(result) = Null THEN error ELSE CoachSendError(result)
    /\ sending' = FALSE
    /\ lastOp' = IF CoachSendError(result) = Null THEN "coach.post.ok" ELSE "coach.post.failed"
    /\ UNCHANGED <<component, mounted, leadId, timer, lead, loading, input,
                   selectedReply, msgReqs, adviceReqs, lastResp>>
    /\ UNCHANGED visitVars
    /\ UNCHANGED dashVars

(***************************************************************************)
(* Inbox: the lead list.                                                   *)
(***************************************************************************)
\* fetchLeads(nextScope) up to its await fetch(url)
FetchLeadsStart(nextScope) ==
    /\ loading' = TRUE
    /\ error' = Null
    /\ scope' = nextScope
    /\ leadsReqs' = [leadsReqs EXCEPT ![nextScope] = @ + 1]

\* useEffect(() => { fetchLeads("all"); }, [])
InboxMount ==
    /\ component = Inbox
    /\ mounted = "init"
    /\ mounted' = "mounted"
    /\ FetchLeadsStart("all")
    /\ lastOp' = "inbox.mount"
    /\ UNCHANGED <<component, leadId, timer, lead, input, sending, selectedReply,
                   msgReqs, posts, adviceReqs, lastResp>>
    /\ UNCHANGED visitVars
    /\ UNCHANGED <<leads, backendLeads, metrics, insights>>

\* the buttons "All leads" and "My leads": onClick={() => fetchLeads(...)}
ClickScope(nextScope) ==
    /\ component = Inbox
    /\ mounted = "mounted"
    /\ Room
    /\ FetchLeadsStart(nextScope)
    /\ lastOp' = "inbox.click"
    /\ UNCHANGED <<component, mounted, leadId, timer, lead, input, sending,
                   selectedReply, msgReqs, posts, adviceReqs, lastResp>>
    /\ UNCHANGED visitVars
    /\ UNCHANGED <<leads, backendLeads, metrics, insights>>

\* answers to a leads request: the fetch rejects, !res.ok, res.json() rejects,
\* a body without `leads`, a body with the leads of the scope
LeadsOutcomes == {"rejected", "http_error", "invalid_json", "no_leads", "leads"}

\* /api/leads and /api/leads?assignedOnly=true
LeadsFor(sc) == IF sc = "mine" THEN backendLeads \cap MyLeads ELSE backendLeads

LeadsError(outcome) ==
    CASE outcome = "rejected" -> ErrNetwork
      [] outcome = "http_error" -> ErrApi(500)
      [] outcome = "invalid_json" -> ErrSyntax
      [] OTHER -> Null

\* fetchLeads from the response to the end of finally
LeadsResolve(sc, outcome) ==
    /\ component = Inbox
    /\ leadsReqs[sc] > 0
    /\ leadsReqs' = [leadsReqs EXCEPT ![sc] = @ - 1]
    /\ IF LeadsError(outcome) = Null
       THEN /\ leads' = IF outcome = "leads" THEN LeadsFor(sc) ELSE {}
            /\ UNCHANGED error
       ELSE /\ error' = LeadsError(outcome)
            /\ UNCHANGED leads
    /\ loading' = FALSE
    /\ lastOp' = IF LeadsError(outcome) = Null THEN "leads.ok" ELSE "leads.failed"
    /\ UNCHANGED <<component, mounted, leadId, timer, lead, input, sending,
                   selectedReply, msgReqs, posts, adviceReqs, lastResp>>
    /\ UNCHANGED visitVars
    /\ UNCHANGED <<scope, backendLeads, metrics, insights>>

\* a lead is created on the backend (a WhatsApp message from a new number)
BackendAddsLead(l) ==
    /\ component = Inbox
    /\ l \notin backendLeads
    /\ backendLeads' = backendLeads \cup {l}
    /\ lastOp' = "backend.lead"
    /\ UNCHANGED <<component, mounted, leadId, timer, lead, loading, error, input,
                   sending, selectedReply, msgReqs, posts, adviceReqs, lastResp>>
    /\ UNCHANGED visitVars
    /\ UNCHANGED <<leads, scope, leadsReqs, metrics, insights>>

(***************************************************************************)
(* Insights tab of the dashboard.                                          *)
(***************************************************************************)
\* InsightsTab({ metrics }) : the three percentages computed at render
RenderInsights ==
    /\ component = Insights
    /\ mounted = "init"
    /\ mounted' = "mounted"
    /\ insights' =
           [hotShare |-> Percent(metrics.hotLeads, metrics.totalLeads),
            fakeRate |-> Percent(metrics.fakeLeads, metrics.totalLeads),
            aiReplyCoverage |-> Percent(metrics.whatsappOutAI, metrics.whatsappIn)]
    /\ lastOp' = "insights.render"
    /\ UNCHANGED <<component, leadId, timer, lead, loading, error, input, sending,
                   selectedReply, msgReqs, posts, adviceReqs, lastResp>>
    /\ UNCHANGED visitVars
    /\ UNCHANGED <<leads, scope, leadsReqs, backendLeads, metrics>>

(***************************************************************************)
(* Specification.                                                          *)
(***************************************************************************)
Init == InitOf({V1, V2})

\* The conversation synchronizer of the lead page (mount, lead switch, polling,
\* manual refresh and the continuation of fetchMessages) with every body shape of
\* the messages endpoint.  The reply submission, the other caller of
\* fetchMessages, is exercised by SpecReply.
Next ==
    \/ Mount
    \/ \E id \in LeadIds \cup {NoLead} : SwitchLead(id)
    \/ Unmount
    \/ \E id \in PostKeys : PollTick(id)
    \/ RefreshChat
    \/ \E k \in ReqKeys, r \in Responses : MessagesResolve(k[1], k[2], r)
    \/ \E id \in LeadIds : VisitsResolve(id, VisitsNetErr)

Spec == Init /\ [][Next]_vars

InitReply == InitOf(Components)

\* Reply submission, of the lead page and of the Sales Coach panel, with every
\* input text; the route stays on the lead the page was opened for and the
\* messages endpoint answers with a few bodies.
NextReply ==
    \/ Mount
    \/ Unmount
    \/ \E id \in PostKeys : PollTick(id)
    \/ RefreshChat
    \/ \E k \in ReqKeys, r \in FewResponses : MessagesResolve(k[1], k[2], r)
    \/ \E s \in Inputs : TypeInput(s)
    \/ ClickSend
    \/ PressEnter
    \/ \E id \in LeadIds, r \in ReplyResponses : PostResolve(id, r)
    \/ CoachMount
    \/ \E id \in LeadIds : CoachPollTick(id)
    \/ \E id \in LeadIds, r \in FewResponses : CoachDetailsResolve(id, r)
    \/ \E res \in AdviceResults, s \in Inputs : CoachAdviceResolve(res, s)
    \/ \E s \in Inputs : CoachEdit(s)
    \/ CoachClickSend
    \/ \E id \in PostKeys, res \in CoachReplyResults : CoachPostResolve(id, res)
    \/ \E id \in LeadIds : VisitsResolve(id, VisitsNetErr)

SpecReply == InitReply /\ [][NextReply]_vars

\* The visit banner: the visits fetch of the effects and of the booking modal,
\* with every collection of visits; the route stays on the lead the page was
\* opened for and the messages requests fail.
NextVisits ==
    \/ Mount
    \/ Unmount
    \/ \E k \in ReqKeys : MessagesResolve(k[1], k[2], NetErr)
    \/ OpenVisitModal
    \/ CloseVisitModal
    \/ BookingSuccess
    \/ \E id \in PostKeys, r \in VisitsResponses : VisitsResolve(id, r)

SpecVisits == Init /\ [][NextVisits]_vars

\* The insights tab, rendered with every pair of counts up to MaxCount.
SpecInsights == InitOf({Insights}) /\ [][RenderInsights]_vars

\* The inbox list.  Every leads request is answered in the end; nothing makes
\* the operator click.
InitInbox == InitOf({Inbox})

NextInbox ==
    \/ InboxMount
    \/ \E sc \in Scopes : ClickScope(sc)
    \/ \E sc \in Scopes, o \in LeadsOutcomes : LeadsResolve(sc, o)
    \/ \E l \in LeadIds : BackendAddsLead(l)

SpecInbox ==
    /\ InitInbox
    /\ [][NextInbox]_vars
    /\ WF_vars(InboxMount)
    /\ WF_vars(\E sc \in Scopes, o \in LeadsOutcomes : LeadsResolve(sc, o))

\* The reply submission of the lead page, where every request is answered in
\* the end: each POST and each messages request resolves or rejects.
NextSend ==
    \/ Mount
    \/ Unmount
    \/ \E id \in LeadIds : PollTick(id)
    \/ RefreshChat
    \/ \E k \in ReqKeys, r \in FewResponses : MessagesResolve(k[1], k[2], r)
    \/ \E s \in Inputs : TypeInput(s)
    \/ ClickSend
    \/ PressEnter
    \/ \E id \in LeadIds, r \in ReplyResponses : PostResolve(id, r)
    \/ \E id \in LeadIds : VisitsResolve(id, VisitsNetErr)

SpecSend ==
    /\ Init
    /\ [][NextSend]_vars
    /\ \A id \in LeadIds : WF_vars(\E r \in ReplyResponses : PostResolve(id, r))
    /\ \A k \in ReqKeys : WF_vars(\E r \in FewResponses : MessagesResolve(k[1], k[2], r))

\* the messages endpoint answering successfully with the conversation of the lead
Conversation(id) ==
    JsonObject(id, "Asha", Undef,
               MArr(IF id = "L1" THEN <<"m1", "m2">> ELSE <<"m3">>), MUndef)

\* Polling with a backend that answers every messages request, successfully
\* and with the conversation of the lead it was issued for; an active interval
\* keeps firing.  A visits request is answered with a failure or with the
\* collection of the backend.
NextPolling ==
    \/ Mount
    \/ \E id \in LeadIds \cup {NoLead} : SwitchLead(id)
    \/ Unmount
    \/ \E id \in PostKeys : PollTick(id)
    \/ RefreshChat
    \/ \E k \in ReqKeys : MessagesResolve(k[1], k[2], Http(200, Conversation(k[1])))
    \/ \E id \in LeadIds, r \in {VisitsNetErr, VisitsOk(backendVisits)} :
           VisitsResolve(id, r)

SpecPolling ==
    /\ Init
    /\ [][NextPolling]_vars
    /\ \A id \in LeadIds : SF_vars(PollTick(id))
    /\ \A k \in ReqKeys : WF_vars(MessagesResolve(k[1], k[2], Http(200, Conversation(k[1]))))
    /\ \A id \in LeadIds :
           WF_vars(\E r \in {VisitsNetErr, VisitsOk(backendVisits)} : VisitsResolve(id, r))

\* The booking modal and the banner, with a backend that answers a visits
\* request with a failure, with the collection it holds or, when the request
\* was issued before the last booking, with the collection of before it; the
\* route stays on the lead the page was opened for and the messages requests fail.
NextBooking ==
    \/ Mount
    \/ \E k \in ReqKeys : MessagesResolve(k[1], k[2], NetErr)
    \/ OpenVisitModal
    \/ CloseVisitModal
    \/ \E d \in {"", "tomorrow", "2024-01-03T10:00"} : SetDate(d)
    \/ SubmitBooking
    \/ \E id \in PostKeys, live \in BOOLEAN, o \in BookingOutcomes :
           BookingResolve(id, live, o)
    \/ \E id \in PostKeys :
           \E r \in {VisitsNetErr, VisitsOk(backendVisits)}
                       \cup IF visitHist.stale[id] > 0 THEN {VisitsOk(visitHist.before)}
                                                       ELSE {} :
               VisitsResolve(id, r)

SpecBooking == Init /\ [][NextBooking]_vars


(***************************************************************************)
(* Properties of the reply submission.                                     *)
(***************************************************************************)
SendOps == {"send.started", "send.ignored", "coach.send.started", "coach.send.ignored"}
ReplyText == IF IsLeadPage THEN input ELSE selectedReply
SendRefetches == msgReqs[<<"L1", "send">>] + msgReqs[<<"L2", "send">>]

\* C1: a send operation (handleSend of the lead page, handleSend of the Sales
\* Coach panel) invoked while the reply text is empty or only whitespace issues
\* no request and changes no state: sending, input, error, the requests in flight
\* and everything else stay as they were.
C1_BlankReplyIgnored ==
    [][ (lastOp' \in SendOps /\ Trim(ReplyText) = <<>>)
        => UNCHANGED <<component, mounted, leadId, timer, lead, loading, error, input,
                       sending, selectedReply, msgReqs, posts, adviceReqs, latestVisit,
                       showVisitModal, visitReqs>> ]_vars

\* a whitespace-only reply was submitted with Enter and was ignored
C1_Witness ==
    /\ lastOp = "send.ignored"
    /\ input # <<>> /\ Trim(input) = <<>>
    /\ NumPosts = 0 /\ ~sending


\* C2: in the lead conversation view at most one reply POST is in flight at any
\* time, and sending is true exactly while a submission is in flight or being
\* handled (its POST unanswered, or its re-fetch awaited): no operator action,
\* Send button or Enter, starts a second submission while sending is true.
C2_OneReplyInFlight ==
    IsLeadPage =>
        /\ NumPosts <= 1
        /\ sending <=> (NumPosts + SendRefetches > 0)

\* C3: every reply submission answered with a success status clears the input
\* and issues exactly one re-fetch of the messages, in the step that handles the
\* answer; sending is not reset in that step, and it is reset only when a
\* submission fails or when an awaited re-fetch completes.
C3_SuccessClearsAndRefetchesOnce ==
    [][ /\ lastOp' = "post.ok" =>
            /\ input' = <<>>
            /\ SendRefetches' = SendRefetches + 1
            /\ NumMsgReqs' = NumMsgReqs + 1
            /\ sending' = sending
        /\ (IsLeadPage /\ sending /\ ~sending') =>
            \/ lastOp' \in {"post.neterr", "post.http_error"}
            \/ SendRefetches' = SendRefetches - 1 ]_vars

\* a reply was accepted: the input is empty, its re-fetch is in flight, sending still true
C3_Witness ==
    /\ lastOp = "post.ok"
    /\ input = <<>>
    /\ SendRefetches = 1 /\ NumPosts = 0
    /\ sending /\ loading

\* C4: a reply answered with a non-success status sets the view's error to a
\* non-null string, and the error is cleared no later than the start of the next
\* messages fetch (poll tick or manual refresh).
C4_SendFailureShowsError ==
    [][ /\ lastOp' = "post.http_error" => error' # Null
        /\ (lastOp' \in {"tick", "refresh"} /\ NumMsgReqs' > NumMsgReqs) => error' = Null
      ]_vars

\* C5: a reply submission that fails (non-success status, network failure)
\* leaves the input text, the stored conversation and the messages requests in
\* flight as they were: no re-fetch is issued.
C5_FailedReplyFrame ==
    [][ lastOp' \in {"post.neterr", "post.http_error"}
        => /\ input' = input
           /\ lead' = lead
           /\ msgReqs' = msgReqs ]_vars

\* a reply failed while text was in the input box and a conversation was shown
C5_Witness ==
    /\ lastOp \in {"post.neterr", "post.http_error"}
    /\ Trim(input) # <<>>
    /\ lead.kind = "object" /\ lead.messages.items # <<>>
    /\ ~sending


(***************************************************************************)
(* Properties of the conversation synchronizer.                            *)
(***************************************************************************)
FetchOkOps == {"fetch.ok", "fetch.ok.again"}
FetchFailedOps == {"fetch.neterr", "fetch.http_error", "fetch.http_error.invalid",
                   "fetch.invalid"}
InvalidJsonOps == {"fetch.invalid", "fetch.http_error.invalid"}

\* C6: whatever the shape of the messages payload, the lead state stored by
\* fetchMessages has a message list the bubble list can render (absent, or a
\* sequence): rendering never fails.
C6_StoredLeadRenders == IsLeadPage => ~RenderThrows(lead)

C8_FetchFailuresSetError ==
    [][ /\ lastOp' \in FetchFailedOps => error' # Null
        /\ lastOp' \in {"fetch.http_error", "fetch.http_error.invalid"} => lead' = lead
      ]_vars

\* C9: after every messages fetch that succeeds (any JSON value, or an empty
\* body) the stored lead carries a lead identifier: the payload's leadId when it
\* has one, otherwise the requesting lead id.
C9_LeadIdPreserved ==
    lastOp \in FetchOkOps \cup {"fetch.empty"} =>
        /\ lead.kind = "object"
        /\ lead.leadId = Coalesce(lastResp.resp.body.leadId, lastResp.lead)

\* C10: what a successful fetch stores is determined by the payload and the
\* requesting lead id alone, not by what was stored before, and a fetch that
\* receives the same payload for the same lead id as the fetch before it leaves
\* the stored structure identical.
C10_RefetchIdempotent ==
    [][ /\ (lastOp' \in FetchOkOps \/ (lastOp' = "fetch.empty" /\ component = V2)) =>
            lead' = StoredLead(JsonNull, Parsed(lastResp'.resp.body), lastResp'.lead)
        /\ lastOp' = "fetch.ok.again" => (lastResp' = lastResp /\ lead' = lead)
      ]_vars

\* the same payload was fetched again for the same lead, with messages stored
C10_Witness ==
    /\ lastOp = "fetch.ok.again"
    /\ Shown(lead) # <<>>
    /\ lead.name # Undef

(***************************************************************************)
(* Properties of polling and of disposal.                                  *)
(***************************************************************************)
\* C11: with a lead id, the view issues one messages fetch when it mounts (and
\* when the lead id changes) and one per tick of its polling interval; at most
\* one interval is active at any time, it is the one of the active lead id, and
\* none is active once the view is unmounted: every messages request issued by
\* the effects or the timer is for the active lead id of the mounted view.
C11_SinglePollingTimer ==
    [][ /\ Cardinality(timer') <= 1
        /\ timer' \subseteq {leadId'}
        /\ mounted' # "mounted" => timer' = {}
        /\ (lastOp' \in {"mount", "switch", "tick"} /\ leadId' # NoLead) =>
               /\ msgReqs' = [msgReqs EXCEPT ![<<leadId', "none">>] = @ + 1]
               /\ timer' = {leadId'}
        /\ \A k \in ReqKeys :
               msgReqs'[k] > msgReqs[k] => (k[1] = leadId' /\ mounted' = "mounted")
      ]_vars

\* the interval of the new lead ticked after a lead change, while a request
\* issued for the previous lead was still in flight
C11_Witness ==
    /\ lastOp = "tick"
    /\ mounted = "mounted" /\ leadId = "L2" /\ timer = {"L2"}
    /\ msgReqs[<<"L1", "none">>] = 1
    /\ msgReqs[<<"L2", "none">>] = 1

\* C12: once the view is unmounted no handler updates its state any more: a
\* messages or visits request in flight at unmount resolves without calling a
\* setter of lead, loading, error or latestVisit.
C12_NoUpdateAfterUnmount ==
    [][ mounted = "unmounted" => UNCHANGED <<lead, loading, error, latestVisit>> ]_vars

(***************************************************************************)
(* Properties of the visit banner.                                         *)
(***************************************************************************)
\* the lead a reference designates: the bare identifier, or the _id of the object
RefLead(ref) ==
    IF ref.t = "string" THEN ref.str ELSE IF ref.t = "object" THEN ref.oid ELSE Undef

\* the collection of the visits response handled last, and the lead it was fetched for
LastVisitList == lastVisits.resp.body.visits.items
LastVisitLead == lastVisits.lead
LastMatching == {i \in 1..Len(LastVisitList) : RefLead(LastVisitList[i].leadId) = LastVisitLead}

C14_BannerIsNewestVisit ==
    (lastOp = "visits.ok" /\ LastMatching # {}) =>
        /\ \E i \in LastMatching : latestVisit = LastVisitList[i]
        /\ \A j \in LastMatching : latestVisit.date >= LastVisitList[j].date

\* the newest visit of the lead came second in the collection, after an older one
C14_Witness ==
    /\ lastOp = "visits.ok"
    /\ LastVisitLead = "L1"
    /\ LastVisitList = <<VisitOf(RefStr("L1"), 1), VisitOf(RefObj("L1", Undef), 3)>>
    /\ latestVisit = VisitOf(RefObj("L1", Undef), 3)

\* C15: a visits fetch that succeeds with no visit of the target lead in the
\* collection (an empty collection, a body without one, or only visits of other
\* leads) sets the banner to "no visit", whatever it showed before, and leaves
\* the view's error as it was.
C15_NoMatchClearsBanner ==
    [][ (lastOp' = "visits.ok" /\ LastMatching' = {})
        => (latestVisit' = NoVisit /\ error' = error) ]_vars

\* a collection with only a visit of another lead and a visit without a
\* reference was fetched: the banner shows no visit
C15_Witness ==
    /\ lastOp = "visits.ok"
    /\ LastVisitLead = "L1"
    /\ Len(LastVisitList) = 2
    /\ LastVisitList[1].leadId = RefObj("L2", Undef)
    /\ LastVisitList[2].leadId = RefMissing
    /\ latestVisit = NoVisit
    /\ NumVisitReqs = 0

VisitsFailedOps == {"visits.neterr", "visits.http_error", "visits.invalid"}

\* C16: a visits fetch that fails (network failure, non-success status, body
\* that is not JSON) leaves the banner exactly as it was and does not touch the
\* view's error.
C16_FailedVisitsFetchKeepsBanner ==
    [][ lastOp' \in VisitsFailedOps
        => (latestVisit' = latestVisit /\ error' = error) ]_vars

\* the refresh after a booking was answered with a non-success status while the
\* banner showed a visit: it still shows it
C16_Witness ==
    /\ lastOp = "visits.http_error"
    /\ latestVisit \in Visits
    /\ RefLead(latestVisit.leadId) = leadId
    /\ ~showVisitModal
    /\ NumVisitReqs = 0

(***************************************************************************)
(* Properties of the Sales Coach panel.                                    *)
(***************************************************************************)
\* C20: when a reply sent from the Sales Coach panel is accepted by the
\* backend, the step that handles the answer clears the panel's reply text and
\* issues a re-fetch of the lead's conversation.
C20_CoachSuccessClearsAndRefetches ==
    [][ lastOp' = "coach.post.ok"
        => (selectedReply' = <<>> /\ NumMsgReqs' = NumMsgReqs + 1) ]_vars

(***************************************************************************)
(* Ordering of the messages responses.                                     *)
(***************************************************************************)
FetchOps == FetchOkOps \cup FetchFailedOps \cup {"fetch.empty"}

\* what the view stores for the payload of the messages response handled last
LastPayloadStored ==
    IF component = V1 THEN Parsed(lastResp.resp.body)
    ELSE Normalize(Parsed(lastResp.resp.body), lastResp.lead)

Ratios ==
    { [shown |-> insights.hotShare, num |-> metrics.hotLeads, den |-> metrics.totalLeads],
      [shown |-> insights.fakeRate, num |-> metrics.fakeLeads, den |-> metrics.totalLeads],
      [shown |-> insights.aiReplyCoverage, num |-> metrics.whatsappOutAI,
       den |-> metrics.whatsappIn] }

Digits == {"0", "1", "2", "3", "4", "5", "6", "7", "8", "9"}

\* the integer a string of decimal digits denotes
RECURSIVE DigitsValue(_)
DigitsValue(str) ==
    IF str = <<>> THEN 0
    ELSE 10 * DigitsValue(SubSeq(str, 1, Len(str) - 1))
             + (CHOOSE k \in 0..9 : Digit(k) = str[Len(str)])

\* a decimal integer without leading zero, followed by "%"
IsPercentage(str) ==
    /\ Len(str) >= 2
    /\ str[Len(str)] = "%"
    /\ \A i \in 1..(Len(str) - 1) : str[i] \in Digits
    /\ (Len(str) > 2 => str[1] # "0")

ShownNumber(str) == DigitsValue(SubSeq(str, 1, Len(str) - 1))

\* 100 * num / den rounded to the nearest integer, a half rounded up
RoundedPercent(num, den) == (200 * num + den) \div (2 * den)

\* C17 as stated: each percentage is "0%" when its denominator is zero, and
\* otherwise the rounded integer value of 100 * numerator / denominator
\* followed by "%".
C17_PercentIsRoundedQuotient ==
    (component = Insights /\ mounted = "mounted") =>
        \A r \in Ratios :
            /\ r.den = 0 => r.shown = <<"0", "%">>
            /\ r.den > 0 => r.shown = NumberToString(RoundedPercent(r.num, r.den)) \o <<"%">>

\* C17 as amended: each percentage is "0%" when its denominator is zero, and
\* otherwise a decimal integer k followed by "%", k being an integer nearest to
\* 100 * numerator / denominator (at most one half away from it); it is never
\* a non-numeric value.
C17_PercentIsNearestInteger ==
    (component = Insights /\ mounted = "mounted") =>
        \A r \in Ratios :
            /\ IsPercentage(r.shown)
            /\ r.den = 0 => r.shown = <<"0", "%">>
            /\ r.den > 0 =>
                   LET k == ShownNumber(r.shown) IN
                   /\ 2 * r.den * k - 200 * r.num <= r.den
                   /\ 200 * r.num - 2 * r.den * k <= r.den

\* 23 hot leads of 40: the exact value is 57.5, the tab shows "57%"
C17_Witness ==
    /\ component = Insights /\ mounted = "mounted"
    /\ metrics.hotLeads = 23 /\ metrics.totalLeads = 40
    /\ insights.hotShare = <<"5", "7", "%">>
    /\ insights.aiReplyCoverage = <<"0", "%">>

(***************************************************************************)
(* Properties of the inbox list.                                           *)
(***************************************************************************)
\* C19: the mounted inbox keeps polling the list endpoint: whenever it is
\* mounted with no leads request in flight, another leads request is issued in
\* the end, without any operator action.
C19_InboxKeepsPolling ==
    (mounted = "mounted" /\ NumLeadsReqs = 0) ~> (NumLeadsReqs > 0)

(***************************************************************************)
(* Properties of the displayed conversation.                               *)
(***************************************************************************)
\* the message list a payload of the messages endpoint carries, in its order:
\* its `messages` array, the payload itself when it is an array, or the
\* `messages` array of its `data` object
BackendList(body) ==
    IF body.kind = "array" THEN body.items
    ELSE IF body.kind # "object" THEN <<>>
    ELSE IF body.messages.t = "array" THEN body.messages.items
    ELSE IF body.messages.t \in {"undefined", "null"} /\ body.nested.t = "array"
         THEN body.nested.items
    ELSE <<>>

\* C21: the lead conversation view never appends a sent reply optimistically: the
\* displayed message list changes only in the step that applies a messages
\* response, and what that step displays is either nothing or exactly the
\* message list of that response, in the order of the backend.
C21_ListOnlyFromResponses ==
    [][ /\ (IsLeadPage /\ Shown(lead') # Shown(lead)) => lastOp' \in FetchOps
        /\ (IsLeadPage /\ lead' # lead) =>
               Shown(lead') \in {<<>>, BackendList(lastResp'.resp.body)}
        /\ lastOp' \in {"post.ok", "post.neterr", "post.http_error", "send.started"}
               => lead' = lead
      ]_vars

\* a reply was accepted while a conversation in backend order (not sorted) was
\* displayed: the list is still the one of the last response
C21_Witness ==
    /\ lastOp = "post.ok"
    /\ Shown(lead) = <<"m2", "m1">>
    /\ lastResp.resp.body.messages.items = <<"m2", "m1">>
    /\ input = <<>> /\ SendRefetches = 1

(***************************************************************************)
(* Properties of the loading flag.                                         *)
(***************************************************************************)
\* C27: in the lead conversation view loading is true in every state in which
\* a messages request is in flight and false when none is: the completion of
\* one of several overlapping requests does not switch it off.
C27_LoadingWhileInFlight == IsLeadPage => (loading <=> NumMsgReqs > 0)

(***************************************************************************)
(* Properties of the inbox list.                                           *)
(***************************************************************************)
\* C26: in the inbox, when a leads request completes successfully and leaves
\* none in flight, the list displayed is what the backend answers for the
\* highlighted scope (nothing, for a body without leads): after clicks on both
\* filters in quick succession the list matches the scope selected last,
\* whichever response resolves last.
C26_ListMatchesScope ==
    [][ (lastOp' = "leads.ok" /\ NumLeadsReqs' = 0) =>
            leads' \in {{}, IF scope' = "mine" THEN backendLeads' \cap MyLeads
                                                ELSE backendLeads'}
      ]_vars

(***************************************************************************)
(* Properties of a failed send of the Sales Coach panel.                   *)
(***************************************************************************)
\* C30: in the Sales Coach panel the step that handles a failed send leaves the
\* selected reply text unchanged, and once sending is false again the reply
\* editor and the Send control are displayed: the operator can retry without
\* reloading the page.
C30_CoachRetryAfterFailure ==
    [][ lastOp' = "coach.post.failed" =>
            /\ selectedReply' = selectedReply
            /\ ~sending' => CoachMainShown' ]_vars

BookingFailures == BookingOutcomes \ {"booking.ok_true"}

\* the request of the modal on display is the one answered
LiveAnswered == \E id \in PostKeys : bookReqs'[<<id, TRUE>>] = bookReqs[<<id, TRUE>>] - 1

\* C23: the booking modal calls onSuccess (the modal is closed and the banner
\* refresh is issued, once) exactly for an answer with a success status and a
\* JSON body whose ok flag is true; for a rejected request, a non-success status,
\* a body that is not JSON or ok false, onSuccess is not called and the error of
\* the modal is set; with an empty date the error is set and no request is
\* issued; loading is true only while the request of the modal is in flight.
C23_OnSuccessIffBooked ==
    [][ /\ lastOp' = "booking.ok_true" =>
               /\ ~showVisitModal'
               /\ NumVisitReqs' = NumVisitReqs +
                      (IF component = V2 /\ visitHist'.booked = NoLead THEN 0 ELSE 1)
        /\ lastOp' \in BookingFailures \cup {"booking.no_date", "booking.bad_date"} =>
               UNCHANGED <<showVisitModal, visitReqs, latestVisit, backendVisits>>
        /\ (lastOp' \in BookingFailures /\ LiveAnswered) =>
               (modal'.error # Null /\ ~modal'.loading)
        /\ lastOp' \in {"booking.no_date", "booking.bad_date"} =>
               (modal'.error # Null /\ ~modal'.loading /\ bookReqs' = bookReqs)
        /\ (showVisitModal' /\ modal'.loading) =>
               \E id \in PostKeys : bookReqs'[<<id, TRUE>>] > 0
      ]_vars

\* a booking was accepted: the modal is closed, the visit is on the backend
\* and the refresh of the banner is in flight
C23_Witness ==
    /\ lastOp = "booking.ok_true"
    /\ ~showVisitModal /\ ~modal.loading /\ modal.error = Null
    /\ leadId = "L1" /\ visitReqs["L1"] = 1
    /\ Len(backendVisits) = 2


\* C24: after an accepted booking, once every visits request in flight has been
\* answered successfully, the banner shows the newest visit of the collection
\* that holds the booked visit: an answer to a request issued before the booking
\* does not put its older collection on the banner.
C24_BannerShowsBookedVisit ==
    ( /\ IsLeadPage /\ mounted = "mounted"
      /\ leadId # NoLead /\ visitHist.booked = leadId
      /\ NumVisitReqs = 0 /\ ~visitHist.failed )
        => latestVisit = LatestOf(VisitsForLead(backendVisits, leadId))


\* C25: whenever the banner shows a visit and no visits request is in flight,
\* the visit belongs to the active lead id: a visit of the lead that was active
\* before a switch is not left on display.
C25_BannerBelongsToActiveLead ==
    ( /\ IsLeadPage /\ mounted = "mounted"
      /\ latestVisit # NoVisit /\ NumVisitReqs = 0 )
        => RefLead(latestVisit.leadId) = leadId


(***************************************************************************)
(* No automatic retry.                                                     *)
(***************************************************************************)
\* the steps that handle a failed request
FailureOps ==
    FetchFailedOps
        \cup {"post.neterr", "post.http_error", "coach.post.failed", "leads.failed"}
        \cup {"visits.neterr", "visits.http_error", "visits.invalid", "visits.bad_shape"}
        \cup BookingFailures

\* the steps that issue a messages request of the lead page
MessagesCauses == {"mount", "switch", "tick", "refresh", "post.ok"}

====
